---- MODULE Spec2Model ----
(***************************************************************************)
(* Model of src/forecast_pipeline_drive.py: the ingestion of the three     *)
(* input files (load_drive_history, load_calendar, build_drive_dataset)    *)
(* and run_pipeline's per-site loop (time index, trend fit, detrending,    *)
(* calendar encoding, effect fit, prediction, metrics) followed by the     *)
(* export of the long and wide coefficient tables and the metrics table.   *)
(*                                                                         *)
(* Numbers are exact rationals <<numerator, denominator>>; not-a-number is *)
(* NaN in a numeric column (the pair <<0, 0>>) and NA in a column of       *)
(* strings.  Library calls are modelled by                                 *)
(* what they compute: OLS(...).fit() is the Moore-Penrose least-squares    *)
(* solution (statsmodels' default method "pinv"), add_constant skips the   *)
(* intercept when a column is already a non-zero constant                  *)
(* (has_constant='skip'), get_dummies(drop_first=True) drops the smallest  *)
(* observed level, r2_score / mean_absolute_error /                        *)
(* mean_absolute_percentage_error are sklearn's.                           *)
(***************************************************************************)
EXTENDS Integers, Sequences, FiniteSets, TLC

\* the missing value of a float column and of a column of strings
NaN == <<0, 0>>
NA == "nan"

(***************************************************************************)
(* Bounds of the model.                                                    *)
(***************************************************************************)
\* largest number of rows of the history file
MaxHist == 3

(***************************************************************************)
(* Generic helpers.                                                        *)
(***************************************************************************)
Abs(i) == IF i < 0 THEN -i ELSE i

RECURSIVE Gcd(_, _)
Gcd(a, b) == IF b = 0 THEN a ELSE Gcd(b, a % b)

Range(s) == {s[i] : i \in DOMAIN s}

\* the sequence f itself; written where a sequence is built by a rule
\* [i \in 1..n |-> e] so that its elements are computed once
AsTuple(f) == f \o <<>>

\* position of x in the sequence s (s lists each element once)
IndexOf(s, x) == CHOOSE i \in DOMAIN s : s[i] = x

RECURSIVE SelectIdx(_, _, _)
\* the indices i >= from of s with Keep(i), ascending
SelectIdx(n, keep, from) ==
    IF from > n THEN <<>>
    ELSE (IF from \in keep THEN <<from>> ELSE <<>>) \o SelectIdx(n, keep, from + 1)

RECURSIVE Flatten(_)
Flatten(ss) == IF ss = <<>> THEN <<>> ELSE ss[1] \o Flatten(Tail(ss))

(***************************************************************************)
(* Exact rational arithmetic (floats of the program, without rounding).    *)
(***************************************************************************)
Rat(n, d) ==
    LET g == Gcd(Abs(n), Abs(d))
        s == IF d < 0 THEN -1 ELSE 1
    IN  <<(s * n) \div g, (s * d) \div g>>

RInt(i) == <<i, 1>>
RZero == <<0, 1>>
ROne == <<1, 1>>
RAdd(a, b) ==
    IF a[1] = 0 THEN b ELSE IF b[1] = 0 THEN a
    ELSE Rat(a[1] * b[2] + b[1] * a[2], a[2] * b[2])
RSub(a, b) ==
    IF b[1] = 0 THEN a ELSE Rat(a[1] * b[2] - b[1] * a[2], a[2] * b[2])
RMul(a, b) ==
    IF a[1] = 0 \/ b[1] = 0 THEN RZero ELSE Rat(a[1] * b[1], a[2] * b[2])
RDiv(a, b) == Rat(a[1] * b[2], a[2] * b[1])
RAbs(a) == <<Abs(a[1]), a[2]>>
IsZero(a) == a[1] = 0

RECURSIVE RSum(_)
RSum(v) == IF v = <<>> THEN RZero ELSE RAdd(v[1], RSum(Tail(v)))

Dot(u, v) == RSum(AsTuple([r \in 1..Len(u) |-> RMul(u[r], v[r])]))
Scale(c, v) == AsTuple([r \in 1..Len(v) |-> RMul(c, v[r])])
VAdd(u, v) == AsTuple([r \in 1..Len(u) |-> RAdd(u[r], v[r])])
VSub(u, v) == AsTuple([r \in 1..Len(u) |-> RSub(u[r], v[r])])
IsZeroVec(v) == \A r \in 1..Len(v) : IsZero(v[r])

\* A is a sequence of columns of n rows; MatVec(A, d, n) = sum_i d[i] * A[i]
MatVec(A, d, n) ==
    AsTuple([r \in 1..n |-> RSum(AsTuple([i \in 1..Len(A) |-> RMul(A[i][r], d[i])]))])

(***************************************************************************)
(* Strings.  A period label is the sequence of its characters; Python      *)
(* compares strings character by character in code-point order.            *)
(***************************************************************************)
\* the characters of a period label, in code-point order
CharOrder == <<"-", "0", "1", "2", "3", "4", "5", "6", "7", "8", "9">>
CharRank(c) == IndexOf(CharOrder, c)
DigitChar(d) == CharOrder[d + 2]

RECURSIVE StrLess(_, _)
\* a < b for two strings given as character sequences
StrLess(a, b) ==
    IF b = <<>> THEN FALSE
    ELSE IF a = <<>> THEN TRUE
    ELSE IF a[1] # b[1] THEN CharRank(a[1]) < CharRank(b[1])
    ELSE StrLess(Tail(a), Tail(b))

\* str.startswith
StartsWith(s, prefix) ==
    Len(s) >= Len(prefix) /\ SubSeq(s, 1, Len(prefix)) = prefix

RECURSIVE Digits(_)
\* the decimal digits of n >= 0, as "{n}" formats them
Digits(n) ==
    IF n < 10 THEN <<DigitChar(n)>>
    ELSE Digits(n \div 10) \o <<DigitChar(n % 10)>>

\* "{w:02d}"
Pad2(w) == IF w < 10 THEN <<"0">> \o Digits(w) ELSE Digits(w)

\* _yearweek: d is a date given by its ISO calendar (year, week, weekday)
yearweek(d) == Digits(d.year) \o <<"-">> \o Pad2(d.week)

\* the site names and the levels of the nominal calendar columns that occur,
\* each list in Python's string order
SiteOrder == <<"PPC_SQF", "PPC_Vitry">>
LevelOrder == <<"AUCUN", "NOEL", "NORMALE", "PAQUES", "S_NORMALE", "S_PAYE", "VACANCES">>
SiteLess(a, b) == IndexOf(SiteOrder, a) < IndexOf(SiteOrder, b)
LevelLess(a, b) == IndexOf(LevelOrder, a) < IndexOf(LevelOrder, b)

(***************************************************************************)
(* Configuration of the program.                                           *)
(***************************************************************************)
ZONE_MAP ==
    [s \in {"PPC_Aulnay", "PPC_SQF", "PPC_Solo_Antibes", "PPC_Solo_Aix", "PPC_LPP"} |->
        CASE s = "PPC_Aulnay" -> "C"
          [] s = "PPC_SQF" -> "A"
          [] s = "PPC_Solo_Antibes" -> "B"
          [] s = "PPC_Solo_Aix" -> "B"
          [] s = "PPC_LPP" -> "C"]

vars_cal == <<"TYPE_SEM_ZONE", "SEM_FERIE", "SEM_PRE_FERIE", "SEM_POST_FERIE",
              "TYPE_SEM_FERIE", "TYPE_SEM_PAYE_FCT">>

\* the columns of vars_cal that hold 0/1 numbers; the others hold strings
IsFlag(c) == c \in {"SEM_FERIE", "SEM_PRE_FERIE", "SEM_POST_FERIE"}

\* the prefix of the evaluation year's period labels
EvalPrefix == <<"2", "0", "2", "4", "-">>

(***************************************************************************)
(* The input files.                                                        *)
(***************************************************************************)
Date(y, w, d) == [year |-> y, week |-> w, day |-> d]

\* the days the files speak of, in chronological order: the last two fall in
\* the same ISO week
Dates == <<Date(2023, 52, 1), Date(2024, 2, 1), Date(2024, 10, 1), Date(2024, 10, 3)>>

\* a cell of POTENTIEL_CDE_CORRIGE: a decimal numeral with a comma, or a
\* cell that is empty or not a number
Numeral(u, t) == [kind |-> "numeral", units |-> u, tenths |-> t]
NotANumber == [kind |-> "text"]
DemandCells == {NotANumber, Numeral(1, 5)}

HistRows ==
    [DATE_RETRAIT : Range(Dates), NOM_SITE_PREP : Range(SiteOrder),
     POTENTIEL_CDE_CORRIGE : DemandCells]

RECURSIVE SeqsUpTo(_, _)
\* the sequences over S of length at most n
SeqsUpTo(S, n) ==
    IF n = 0 THEN {<<>>}
    ELSE LET shorter == SeqsUpTo(S, n - 1)
         IN  shorter \cup {Append(q, x) : q \in {r \in shorter : Len(r) = n - 1}, x \in S}

\* the place of a history row in a file sorted by day, then by site
HistKey(row) ==
    Len(SiteOrder) * IndexOf(Dates, row.DATE_RETRAIT) + IndexOf(SiteOrder, row.NOM_SITE_PREP)

\* the history files: at most MaxHist rows, sorted by day and site
HistFiles ==
    {h \in SeqsUpTo(HistRows, MaxHist) :
        \A i \in 1..(Len(h) - 1) : HistKey(h[i]) <= HistKey(h[i + 1])}

CalRow(d, zone, f, pre, post, type) ==
    [JOUR |-> d, TYPE_SEM_ZONE |-> zone, SEM_FERIE |-> f, SEM_PRE_FERIE |-> pre,
     SEM_POST_FERIE |-> post, TYPE_SEM_FERIE |-> type]

\* the full calendar, one row per day of Dates, and the full payroll calendar
CalendarRows ==
    << CalRow(Dates[1], "VACANCES", "VRAI", "FAUX", "FAUX", "NOEL"),
       CalRow(Dates[2], "NORMALE", "FAUX", "FAUX", "VRAI", "AUCUN"),
       CalRow(Dates[3], "VACANCES", "FAUX", "VRAI", "FAUX", "PAQUES"),
       CalRow(Dates[4], "VACANCES", "FAUX", "VRAI", NA, "PAQUES") >>

PayeRows ==
    << [JOUR |-> Dates[1], TYPE_SEM_PAYE_FCT |-> NA],
       [JOUR |-> Dates[2], TYPE_SEM_PAYE_FCT |-> "S_PAYE"] >>

\* the files that hold the rows of full up to some day
Prefixes(full) == {SubSeq(full, 1, k) : k \in 0..Len(full)}

CalFiles == Prefixes(CalendarRows)
PayeFiles == {PayeRows}

(***************************************************************************)
(* Loading and joining.                                                    *)
(***************************************************************************)
\* DataFrame.merge(right, on=key, how='left'): every left row once per right
\* row with the same key, in the right rows' order; once, with the right
\* columns missing (the record missing), when no right row has the key
LeftMerge(left, right, key, missing) ==
    Flatten(AsTuple([i \in 1..Len(left) |->
        LET m == SelectIdx(Len(right), {j \in 1..Len(right) : right[j][key] = left[i][key]}, 1)
        IN  IF m = <<>> THEN <<left[i] @@ missing>>
            ELSE AsTuple([k \in 1..Len(m) |-> left[i] @@ right[m[k]]])]))

\* .astype(str).str.replace(',','.').pipe(pd.to_numeric, errors='coerce')
\* .fillna(0).astype(int): the integer part of the numeral, 0 when the cell
\* is not a number
ToCommandes(cell) == IF cell.kind = "numeral" THEN cell.units ELSE 0

load_drive_history(file) ==
    AsTuple([i \in 1..Len(file) |->
        [site |-> file[i].NOM_SITE_PREP,
         ID_SEM |-> yearweek(file[i].DATE_RETRAIT),
         commandes |-> ToCommandes(file[i].POTENTIEL_CDE_CORRIGE)]])

\* .map({'VRAI':1,'FAUX':0}).fillna(0).astype(int)
MapFlag(cell) == IF cell = "VRAI" THEN ROne ELSE RZero

\* .fillna('S_NORMALE')
FillPaye(v) == IF v = NA THEN "S_NORMALE" ELSE v

load_calendar(calfile, payefile) ==
    LET cal == AsTuple([i \in 1..Len(calfile) |->
                  [date |-> calfile[i].JOUR,
                   TYPE_SEM_ZONE |-> calfile[i].TYPE_SEM_ZONE,
                   SEM_FERIE |-> MapFlag(calfile[i].SEM_FERIE),
                   SEM_PRE_FERIE |-> MapFlag(calfile[i].SEM_PRE_FERIE),
                   SEM_POST_FERIE |-> MapFlag(calfile[i].SEM_POST_FERIE),
                   TYPE_SEM_FERIE |-> calfile[i].TYPE_SEM_FERIE]])
        paye == AsTuple([i \in 1..Len(payefile) |->
                  [date |-> payefile[i].JOUR,
                   TYPE_SEM_PAYE_FCT |-> FillPaye(payefile[i].TYPE_SEM_PAYE_FCT)]])
        merged == LeftMerge(cal, paye, "date", [TYPE_SEM_PAYE_FCT |-> NA])
    IN  AsTuple([i \in 1..Len(merged) |->
          [ID_SEM |-> yearweek(merged[i].date),
           TYPE_SEM_ZONE |-> merged[i].TYPE_SEM_ZONE,
           SEM_FERIE |-> merged[i].SEM_FERIE,
           SEM_PRE_FERIE |-> merged[i].SEM_PRE_FERIE,
           SEM_POST_FERIE |-> merged[i].SEM_POST_FERIE,
           TYPE_SEM_FERIE |-> merged[i].TYPE_SEM_FERIE,
           TYPE_SEM_PAYE_FCT |-> FillPaye(merged[i].TYPE_SEM_PAYE_FCT)]])

build_drive_dataset(histfile, calfile, payefile) ==
    LET hist == load_drive_history(histfile)
        cal == load_calendar(calfile, payefile)
        df == LeftMerge(hist, cal, "ID_SEM",
                        [c \in Range(vars_cal) |-> IF IsFlag(c) THEN NaN ELSE NA])
    IN  AsTuple([i \in 1..Len(df) |->
          df[i] @@ [ZONE_SCOLAIRE |->
                      IF df[i].site \in DOMAIN ZONE_MAP THEN ZONE_MAP[df[i].site] ELSE "C"]])

(***************************************************************************)
(* The regression engine and the encoders of the per-site loop.            *)
(***************************************************************************)
\* a design matrix is a sequence of named columns [name, col]; the name of an
\* indicator column prefix_level is the pair <<prefix, level>>
Column(name, col) == [name |-> name, col |-> col]
Cols(X) == AsTuple([j \in 1..Len(X) |-> X[j].col])

\* add_trend's safe_is_const: np.ptp(s) == 0.0 and np.any(s != 0.0)
IsNonZeroConst(col) ==
    /\ \A r \in 1..Len(col) : col[r] # NaN /\ col[r] = col[1]
    /\ \E r \in 1..Len(col) : ~IsZero(col[r])

\* sm.add_constant(X) with its defaults prepend=True, has_constant='skip'
add_constant(X, n) ==
    IF \E j \in 1..Len(X) : IsNonZeroConst(X[j].col) THEN X
    ELSE <<Column(<<"const">>, AsTuple([r \in 1..n |-> ROne]))>> \o X

RECURSIVE Pinv(_, _)
\* the Moore-Penrose inverse of the matrix with columns A (n rows), as the
\* sequence of its rows, column by column (Greville)
Pinv(A, n) ==
    LET k == Len(A)
        a == A[k]
    IN  IF k = 1
        THEN IF IsZeroVec(a) THEN <<AsTuple([r \in 1..n |-> RZero])>>
             ELSE <<Scale(RDiv(ROne, Dot(a, a)), a)>>
        ELSE LET A0 == SubSeq(A, 1, k - 1)
                 P  == Pinv(A0, n)
                 d  == AsTuple([i \in 1..(k - 1) |-> Dot(P[i], a)])
                 c  == VSub(a, MatVec(A0, d, n))
                 b  == IF IsZeroVec(c)
                       THEN Scale(RDiv(ROne, RAdd(ROne, Dot(d, d))),
                                  AsTuple([r \in 1..n |->
                                     RSum(AsTuple([i \in 1..(k - 1) |-> RMul(d[i], P[i][r])]))]))
                       ELSE Scale(RDiv(ROne, Dot(c, c)), c)
             IN  AsTuple([i \in 1..k |-> IF i = k THEN b ELSE VSub(P[i], Scale(d[i], b))])

HasMissing(X) == \E j \in 1..Len(X) : \E r \in 1..Len(X[j].col) : X[j].col[r] = NaN

\* sm.OLS(y, X).fit().params: the constructor raises MissingDataError when X
\* holds a missing value; fit() solves by the pseudo-inverse (method "pinv")
OLS_fit(y, X) ==
    IF HasMissing(X) THEN [error |-> "MissingDataError", params |-> <<>>]
    ELSE LET P == Pinv(Cols(X), Len(y))
         IN  [error |-> "none", params |-> AsTuple([j \in 1..Len(X) |-> Dot(P[j], y)])]

\* results.predict(X)
OLS_predict(params, X, n) == MatVec(Cols(X), params, n)

\* the levels of a nominal column seen in the rows, missing values left out,
\* in sorted order
Levels(grp, c) ==
    LET seen == {grp[r][c] : r \in 1..Len(grp)} \ {NA}
        idx == SelectIdx(Len(LevelOrder), {i \in 1..Len(LevelOrder) : LevelOrder[i] \in seen}, 1)
    IN  AsTuple([k \in 1..Len(idx) |-> LevelOrder[idx[k]]])

\* the indicator columns of the nominal column c with the first level dropped
Dummies(grp, c) ==
    LET lv == Levels(grp, c)
    IN  AsTuple([k \in 1..(IF lv = <<>> THEN 0 ELSE Len(lv) - 1) |->
           Column(<<c, lv[k + 1]>>,
                  AsTuple([r \in 1..Len(grp) |-> IF grp[r][c] = lv[k + 1] THEN ROne ELSE RZero]))])

\* pd.get_dummies(grp[vars_cal], drop_first=True, dtype=float): the numeric
\* columns as they are, then the indicators of each nominal column
get_dummies(grp) ==
    LET flags == SelectIdx(Len(vars_cal), {i \in 1..Len(vars_cal) : IsFlag(vars_cal[i])}, 1)
        noms == SelectIdx(Len(vars_cal), {i \in 1..Len(vars_cal) : ~IsFlag(vars_cal[i])}, 1)
    IN  AsTuple([k \in 1..Len(flags) |->
           Column(<<vars_cal[flags[k]]>>,
                  AsTuple([r \in 1..Len(grp) |-> grp[r][vars_cal[flags[k]]]]))])
        \o Flatten(AsTuple([k \in 1..Len(noms) |-> Dummies(grp, vars_cal[noms[k]])]))

(***************************************************************************)
(* The metrics (sklearn.metrics).                                          *)
(***************************************************************************)
Mean(v) == RDiv(RSum(v), RInt(Len(v)))
Sq(a) == RMul(a, a)

\* r2_score: not-a-number below two samples; with a zero total sum of
\* squares 1.0 for a perfect prediction and 0.0 otherwise (force_finite)
r2_score(yt, yp) ==
    IF Len(yt) < 2 THEN NaN
    ELSE LET numerator == RSum(AsTuple([r \in 1..Len(yt) |-> Sq(RSub(yt[r], yp[r]))]))
             avg == Mean(yt)
             denominator == RSum(AsTuple([r \in 1..Len(yt) |-> Sq(RSub(yt[r], avg))]))
         IN  IF IsZero(numerator) THEN ROne
             ELSE IF IsZero(denominator) THEN RZero
             ELSE RSub(ROne, RDiv(numerator, denominator))

mean_absolute_error(yt, yp) ==
    Mean(AsTuple([r \in 1..Len(yt) |-> RAbs(RSub(yp[r], yt[r]))]))

\* mean_absolute_percentage_error: mean of |yp - yt| / max(|yt|, eps), eps
\* the float64 machine epsilon.  The result is the number
\* regular + overEps / eps, kept as the pair of its two parts: |yt| >= 1 for
\* an integer yt # 0, and the rows with yt = 0 are divided by eps
MapeNaN == [regular |-> NaN, overEps |-> NaN]

mean_absolute_percentage_error(yt, yp) ==
    LET n == Len(yt)
        err(r) == RAbs(RSub(yp[r], yt[r]))
    IN  [regular |-> RDiv(RSum(AsTuple([r \in 1..n |->
                        IF IsZero(yt[r]) THEN RZero ELSE RDiv(err(r), RAbs(yt[r]))])),
                        RInt(n)),
         overEps |-> RDiv(RSum(AsTuple([r \in 1..n |->
                        IF IsZero(yt[r]) THEN err(r) ELSE RZero])), RInt(n))]

(***************************************************************************)
(* The coefficient export.                                                 *)
(***************************************************************************)
\* the column names' prefixes in Python's string order; two names with the
\* same prefix compare as their levels do
PrefixOrder == <<"SEM_FERIE", "SEM_POST_FERIE", "SEM_PRE_FERIE", "TYPE_SEM_FERIE",
                 "TYPE_SEM_PAYE_FCT", "TYPE_SEM_ZONE", "const">>
NameLess(a, b) ==
    IF a[1] # b[1] THEN IndexOf(PrefixOrder, a[1]) < IndexOf(PrefixOrder, b[1])
    ELSE Len(a) = 2 /\ Len(b) = 2 /\ LevelLess(a[2], b[2])

\* the sites of S in sorted order, as the index of a pivot or the keys of a
\* groupby come out
SortSites(S) ==
    AsTuple([p \in 1..Cardinality(S) |->
        CHOOSE x \in S : Cardinality({y \in S : SiteLess(y, x)}) = p - 1])

\* the column names of S in sorted order, as the columns of a pivot come out
SortNames(S) ==
    AsTuple([p \in 1..Cardinality(S) |->
        CHOOSE x \in S : Cardinality({y \in S : NameLess(y, x)}) = p - 1])

HasDuplicateKey(tbl) ==
    \E i, j \in 1..Len(tbl) :
        i < j /\ tbl[i].site = tbl[j].site /\ tbl[i].variable = tbl[j].variable

\* a reshaping that keeps the last of the rows sharing a (site, variable)
\* pair instead of raising, as pivot_table(aggfunc='last') would
Pivot_KeepLast(tbl) ==
    LET sites == SortSites({tbl[i].site : i \in 1..Len(tbl)})
        variables == SortNames({tbl[i].variable : i \in 1..Len(tbl)})
        last(s, v) == CHOOSE i \in 1..Len(tbl) :
                         /\ tbl[i].site = s /\ tbl[i].variable = v
                         /\ \A j \in 1..Len(tbl) :
                               (tbl[j].site = s /\ tbl[j].variable = v) => j <= i
    IN  [error |-> "none", columns |-> variables,
         rows |-> AsTuple([k \in 1..Len(sites) |->
                    [site |-> sites[k],
                     cells |-> [v \in Range(variables) |->
                        IF \E i \in 1..Len(tbl) : tbl[i].site = sites[k] /\ tbl[i].variable = v
                        THEN tbl[last(sites[k], v)].coef
                        ELSE NaN]]])]

\* df_coefs.pivot(index='site', columns='variable', values='coef')
\* .reset_index(): ValueError when a (site, variable) pair occurs twice; else
\* one row per site and one column per variable, both sorted, a cell
\* missing where the site has no such variable
Pivot(tbl) ==
    IF HasDuplicateKey(tbl) THEN [error |-> "ValueError", columns |-> <<>>, rows |-> <<>>]
    ELSE LET sites == SortSites({tbl[i].site : i \in 1..Len(tbl)})
             variables == SortNames({tbl[i].variable : i \in 1..Len(tbl)})
         IN  [error |-> "none", columns |-> variables,
              rows |-> AsTuple([k \in 1..Len(sites) |->
                         [site |-> sites[k],
                          cells |-> [v \in Range(variables) |->
                             IF \E i \in 1..Len(tbl) : tbl[i].site = sites[k] /\ tbl[i].variable = v
                             THEN tbl[CHOOSE i \in 1..Len(tbl) :
                                        tbl[i].site = sites[k] /\ tbl[i].variable = v].coef
                             ELSE NaN]]])]

(***************************************************************************)
(* One iteration of run_pipeline's loop, as the values it computes.        *)
(***************************************************************************)
LabelLess(a, b) == StrLess(a.ID_SEM, b.ID_SEM)

\* sort_values('ID_SEM'): an element goes after the elements with a smaller
\* label and after those with the same label that precede it in s
sort_values(s) ==
    LET n == Len(s)
        pos(i) == 1 + Cardinality({j \in 1..n :
                        \/ LabelLess(s[j], s[i])
                        \/ (~LabelLess(s[i], s[j]) /\ j < i)})
    IN  AsTuple([p \in 1..n |-> s[CHOOSE i \in 1..n : pos(i) = p]])

\* df.groupby('site'): the sites of the frame, sorted
GroupKeys(frame) ==
    SortSites({frame[i].site : i \in 1..Len(frame)})

\* grp.sort_values('ID_SEM').reset_index(drop=True) with grp['t'] = arange:
\* rows with the same label keep their order
SortedGroup(frame, s) ==
    LET rows == SelectIdx(Len(frame), {i \in 1..Len(frame) : frame[i].site = s}, 1)
        sorted == sort_values(AsTuple([k \in 1..Len(rows) |-> frame[rows[k]]]))
    IN  AsTuple([r \in 1..Len(sorted) |-> sorted[r] @@ [t |-> r - 1]])

TrendDesign(g) ==
    add_constant(<<Column(<<"t">>, AsTuple([r \in 1..Len(g) |-> RInt(g[r].t)]))>>, Len(g))

EffectDesign(g) == add_constant(get_dummies(g), Len(g))

\* an evaluation subset that takes every row of the group
Mask24_EveryRow(g) == 1..Len(g)

\* grp['ID_SEM'].str.startswith('2024-')
Mask24(g) == {r \in 1..Len(g) : StartsWith(g[r].ID_SEM, EvalPrefix)}

Take(v, keep) ==
    LET idx == SelectIdx(Len(v), keep, 1) IN AsTuple([k \in 1..Len(idx) |-> v[idx[k]]])

\* line 136 (and the float cast of line 128): the observed demand
Demand(g) == AsTuple([r \in 1..Len(g) |-> RInt(g[r].commandes)])

\* lines 128-129: det.predict(sm.add_constant(grp['t'])) of the trend fit
TrendPrediction(y, Xt) == OLS_predict(OLS_fit(y, Xt).params, Xt, Len(y))

\* lines 140-148: the metrics row of site s
MetricsRow(s, y, yp, yt24, yp24) ==
    [site |-> s,
     r2_insample |-> r2_score(y, yp),
     mae_insample |-> mean_absolute_error(y, yp),
     mape_insample |-> mean_absolute_percentage_error(y, yp),
     r2_2024 |-> IF Len(yt24) > 0 THEN r2_score(yt24, yp24) ELSE NaN,
     mae_2024 |-> IF Len(yt24) > 0 THEN mean_absolute_error(yt24, yp24) ELSE NaN,
     mape_2024 |-> IF Len(yt24) > 0
                   THEN mean_absolute_percentage_error(yt24, yp24)
                   ELSE MapeNaN]

\* lines 150-153: one row per column of the effect design
CoefRows(s, Xe, params) ==
    AsTuple([j \in 1..Len(Xe) |-> [site |-> s, variable |-> Xe[j].name, coef |-> params[j]]])

\* lines 135-153 once both fits are made
Evaluate(s, y, Xe, params, yp, m24) ==
    [raised |-> FALSE, X |-> Xe, y_pred |-> yp,
     metrics |-> MetricsRow(s, y, yp, Take(y, m24), Take(yp, m24)),
     coefs |-> CoefRows(s, Xe, params)]

\* lines 133-153: raised when the effect regression cannot be built
AfterEffectFit(s, g, y, trend, Xe, mod) ==
    IF mod.error # "none"
    THEN [raised |-> TRUE, X |-> Xe]
    ELSE Evaluate(s, y, Xe, mod.params,
                  VAdd(trend, OLS_predict(mod.params, Xe, Len(g))), Mask24(g))

\* lines 129-153 once the trend is predicted
AfterTrendFit(s, g, y, trend, Xe) ==
    AfterEffectFit(s, g, y, trend, Xe, OLS_fit(VSub(y, trend), Xe))

\* lines 128-153 for the sorted group g of site s: the fits, the prediction,
\* the metrics row and the coefficient rows
SiteFit(s, g) ==
    AfterTrendFit(s, g, Demand(g), TrendPrediction(Demand(g), TrendDesign(g)), EffectDesign(g))

(***************************************************************************)
(* The program as a state machine.                                         *)
(***************************************************************************)
VARIABLES
    hist_file, cal_file, paye_file,   \* the three downloaded input files
    pc,                               \* where run_pipeline stands
    error,                            \* the exception that ended the run
    df,                               \* build_drive_dataset()'s frame
    todo,                             \* the groups the loop has yet to visit
    site, grp, X, y_pred,             \* the loop's variables after an iteration
    metrics, results,                 \* the two lists the loop appends to
    df_coefs,                         \* the long coefficient table
    OUT_COEF_L, OUT_COEF_W, OUT_METRICS   \* the output files

vars == <<hist_file, cal_file, paye_file, pc, error, df, todo, site, grp, X, y_pred,
          metrics, results, df_coefs, OUT_COEF_L, OUT_COEF_W, OUT_METRICS>>

inputs == <<hist_file, cal_file, paye_file>>
loopVars == <<site, grp, X, y_pred>>
outFiles == <<OUT_COEF_L, OUT_COEF_W, OUT_METRICS>>

\* a file of the output directory
NotWritten == [written |-> FALSE]
File(table) == [written |-> TRUE, table |-> table]
Unset == "unset"

Init ==
    /\ hist_file \in HistFiles
    /\ cal_file \in CalFiles
    /\ paye_file \in PayeFiles
    /\ pc = "start"
    /\ error = "none"
    /\ df = <<>>
    /\ todo = <<>>
    /\ site = Unset /\ grp = <<>> /\ X = <<>> /\ y_pred = <<>>
    /\ metrics = <<>> /\ results = <<>>
    /\ df_coefs = <<>>
    /\ OUT_COEF_L = NotWritten /\ OUT_COEF_W = NotWritten /\ OUT_METRICS = NotWritten

\* lines 119-124: the inputs are joined and grouped by site
BuildDataset ==
    /\ pc = "start"
    /\ df' = build_drive_dataset(hist_file, cal_file, paye_file)
    /\ todo' = GroupKeys(df')
    /\ pc' = "loop"
    /\ UNCHANGED <<inputs, error, loopVars, metrics, results, df_coefs, outFiles>>

\* lines 124-153: one iteration of the loop; an exception leaves the loop
\* and the function
SiteStep ==
    /\ pc = "loop"
    /\ todo # <<>>
    /\ LET s == Head(todo)
           g == SortedGroup(df, s)
           fit == SiteFit(s, g)
       IN  /\ site' = s
           /\ grp' = g
           /\ X' = fit.X
           /\ IF fit.raised
              THEN /\ pc' = "failed"
                   /\ error' = "MissingDataError"
                   /\ UNCHANGED <<todo, y_pred, metrics, results>>
              ELSE /\ y_pred' = fit.y_pred
                   /\ metrics' = Append(metrics, fit.metrics)
                   /\ results' = Append(results, fit.coefs)
                   /\ todo' = Tail(todo)
                   /\ UNCHANGED <<pc, error>>
    /\ UNCHANGED <<inputs, df, df_coefs, outFiles>>

\* lines 155-156: pd.concat raises ValueError on an empty list
ExportLong ==
    /\ pc = "loop"
    /\ todo = <<>>
    /\ IF results = <<>>
       THEN /\ pc' = "failed"
            /\ error' = "ValueError"
            /\ UNCHANGED <<df_coefs, OUT_COEF_L>>
       ELSE /\ df_coefs' = Flatten(results)
            /\ OUT_COEF_L' = File(df_coefs')
            /\ pc' = "pivot"
            /\ UNCHANGED error
    /\ UNCHANGED <<inputs, df, todo, loopVars, metrics, results, OUT_COEF_W, OUT_METRICS>>

\* lines 158-159
ExportWide ==
    /\ pc = "pivot"
    /\ LET df_wide == Pivot(df_coefs)
       IN  IF df_wide.error # "none"
           THEN /\ pc' = "failed"
                /\ error' = "ValueError"
                /\ UNCHANGED OUT_COEF_W
           ELSE /\ OUT_COEF_W' = File(df_wide)
                /\ pc' = "metrics"
                /\ UNCHANGED error
    /\ UNCHANGED <<inputs, df, todo, loopVars, metrics, results, df_coefs,
                   OUT_COEF_L, OUT_METRICS>>

\* line 161
ExportMetrics ==
    /\ pc = "metrics"
    /\ OUT_METRICS' = File(metrics)
    /\ pc' = "written"
    /\ UNCHANGED <<inputs, error, df, todo, loopVars, metrics, results, df_coefs,
                   OUT_COEF_L, OUT_COEF_W>>

\* lines 163-171: the three files are uploaded
Upload ==
    /\ pc = "written"
    /\ pc' = "done"
    /\ UNCHANGED <<inputs, error, df, todo, loopVars, metrics, results, df_coefs, outFiles>>

Next ==
    \/ BuildDataset
    \/ SiteStep
    \/ ExportLong
    \/ ExportWide
    \/ ExportMetrics
    \/ Upload

Spec == Init /\ [][Next]_vars

(***************************************************************************)
(* Vocabulary of the properties.                                           *)
(***************************************************************************)
\* the loop has visited a site
Visited == site # Unset
\* the last iteration ran to its end: the last metrics row is the site's
LastFitted == metrics # <<>> /\ metrics[Len(metrics)].site = site
\* the run has ended, normally or by an exception
Ended == pc \in {"done", "failed"}
\* the loop is over and the export has begun
Exporting == pc \in {"pivot", "metrics", "written", "done"}

SitesOfFrame == {df[i].site : i \in 1..Len(df)}
RowsOf(table, s) == {i \in 1..Len(table) : table[i].site = s}
\* the observed demand of the current group, and the rows of the evaluation year
y_true == AsTuple([r \in 1..Len(grp) |-> RInt(grp[r].commandes)])
mask24 == {r \in 1..Len(grp) : StartsWith(grp[r].ID_SEM, EvalPrefix)}
AllRows == 1..Len(grp)
LastMetrics == metrics[Len(metrics)]
LastCoefs == results[Len(results)]

MetricColumns ==
    {"site", "r2_insample", "mae_insample", "mape_insample", "r2_2024", "mae_2024", "mape_2024"}

\* no row of the site's group holds a missing calendar value
Unaffected(s) == ~HasMissing(get_dummies(SortedGroup(df, s)))

(***************************************************************************)
(* C1.  An error raised while one site is processed does not stop the      *)
(* others: whenever the run has ended, every site whose own data raise no  *)
(* error has its metrics row in the metrics file and its coefficient rows  *)
(* in the long coefficient file.                                           *)
(***************************************************************************)
C1_ErrorIsolation ==
    Ended =>
        \A s \in SitesOfFrame :
            Unaffected(s) =>
                /\ OUT_METRICS.written /\ RowsOf(OUT_METRICS.table, s) # {}
                /\ OUT_COEF_L.written /\ RowsOf(OUT_COEF_L.table, s) # {}

(***************************************************************************)
(* C2.  After the sort and the index assignment, t is 0..n-1 in row order  *)
(* and strictly increasing with the period label: for two rows of the      *)
(* site, t(a) < t(b) if and only if label(a) < label(b).                   *)
(***************************************************************************)
C2_TimeIndex ==
    Visited =>
        /\ \A r \in 1..Len(grp) : grp[r].t = r - 1
        /\ \A a, b \in 1..Len(grp) :
              (grp[a].t < grp[b].t) <=> StrLess(grp[a].ID_SEM, grp[b].ID_SEM)

(***************************************************************************)
(* C3.  When a fitted site has no more rows than its design matrix has     *)
(* columns, the effect fit reports a coefficient as not-a-number, and the  *)
(* marker carries through to the site's predictions.                       *)
(***************************************************************************)
C3_RankDeficientUndefined ==
    (LastFitted /\ Len(grp) <= Len(X)) =>
        /\ \E j \in 1..Len(LastCoefs) : LastCoefs[j].coef = NaN
        /\ \E r \in 1..Len(y_pred) : y_pred[r] = NaN

(***************************************************************************)
(* C5.  The R-squared reported for the full series and for the evaluation  *)
(* subset is 1 when every residual is zero and the true values are not all *)
(* equal, and not-a-number when the true values are all equal.             *)
(***************************************************************************)
R2Policy(rows, r2) ==
    LET constant == \A a, b \in rows : grp[a].commandes = grp[b].commandes
        perfect == \A r \in rows : y_pred[r] = y_true[r]
    IN  /\ (perfect /\ ~constant) => r2 = ROne
        /\ constant => r2 = NaN

C5_R2Policy ==
    LastFitted =>
        /\ R2Policy(AllRows, LastMetrics.r2_insample)
        /\ mask24 # {} => R2Policy(mask24, LastMetrics.r2_2024)

(***************************************************************************)
(* C6.  When the evaluated rows hold an observed demand of zero, the MAPE  *)
(* is either the mean of |residual / true| over the rows with a non-zero   *)
(* true value, or not-a-number; never a number got by dividing by a        *)
(* substitute denominator.                                                 *)
(***************************************************************************)
SkipZeroMape(rows) ==
    LET nz == {r \in rows : grp[r].commandes # 0}
    IN  IF nz = {} THEN MapeNaN
        ELSE [regular |-> Mean(Take(AsTuple([r \in 1..Len(grp) |->
                              IF r \in nz
                              THEN RDiv(RAbs(RSub(y_pred[r], y_true[r])), RAbs(y_true[r]))
                              ELSE RZero]), nz)),
              overEps |-> RZero]

MapeZeroPolicy(rows, mape) ==
    (\E r \in rows : grp[r].commandes = 0) =>
        mape \in {MapeNaN, SkipZeroMape(rows)}

C6_MapeZeroPolicy ==
    LastFitted =>
        /\ MapeZeroPolicy(AllRows, LastMetrics.mape_insample)
        /\ MapeZeroPolicy(mask24, LastMetrics.mape_2024)

(***************************************************************************)
(* C8.  The dataset of build_drive_dataset has exactly one row per (site,  *)
(* period label): the join with the calendar neither duplicates nor drops  *)
(* history rows, so a history with one row per (site, period label) gives  *)
(* a dataset with one row per (site, period label).                        *)
(***************************************************************************)
OnePerSitePeriod(frame) ==
    \A i, j \in 1..Len(frame) :
        (frame[i].site = frame[j].site /\ frame[i].ID_SEM = frame[j].ID_SEM) => i = j

C8_OneRowPerSitePeriod ==
    pc # "start" =>
        /\ Len(df) = Len(hist_file)
        /\ OnePerSitePeriod(load_drive_history(hist_file)) => OnePerSitePeriod(df)

(***************************************************************************)
(* C9.  In the design matrix of a site a nominal attribute with m >= 1     *)
(* observed levels has exactly m-1 indicator columns, the smallest level   *)
(* being the one dropped; each holiday flag has exactly one column; every  *)
(* entry of these columns is 0 or 1 and at most one indicator of an        *)
(* attribute is 1 in a row.                                                *)
(***************************************************************************)
ColumnsOf(c) == {j \in 1..Len(X) : X[j].name[1] = c}

C9_Encoding ==
    Visited =>
        \A k \in 1..Len(vars_cal) :
            LET c == vars_cal[k]
                lv == {grp[r][c] : r \in 1..Len(grp)} \ {NA}
            IN  IF IsFlag(c)
                THEN /\ Cardinality(ColumnsOf(c)) = 1
                     /\ \A j \in ColumnsOf(c) : \A r \in 1..Len(grp) :
                           X[j].col[r] \in {RZero, ROne}
                ELSE lv # {} =>
                     /\ Cardinality(ColumnsOf(c)) = Cardinality(lv) - 1
                     /\ {X[j].name[2] : j \in ColumnsOf(c)} =
                           {l \in lv : \E l2 \in lv : LevelLess(l2, l)}
                     /\ \A j \in ColumnsOf(c) : \A r \in 1..Len(grp) :
                           X[j].col[r] \in {RZero, ROne}
                     /\ \A r \in 1..Len(grp) :
                           Cardinality({j \in ColumnsOf(c) : X[j].col[r] = ROne}) <= 1

(***************************************************************************)
(* C10.  The design matrix of the effect fit has an all-ones intercept     *)
(* column as its first column, once, so that every fitted site has a       *)
(* const row among its coefficients; the trend design matrix has the       *)
(* intercept too.                                                          *)
(***************************************************************************)
IsIntercept(column, n) ==
    column.name = <<"const">> /\ \A r \in 1..n : column.col[r] = ROne

C10_Intercept ==
    Visited =>
        /\ IsIntercept(X[1], Len(grp))
        /\ Cardinality(ColumnsOf("const")) = 1
        /\ IsIntercept(TrendDesign(grp)[1], Len(grp))
        /\ LastFitted => \E j \in 1..Len(LastCoefs) : LastCoefs[j].variable = <<"const">>

(***************************************************************************)
(* C4.  The metrics table holds one row per site of the dataset, each with *)
(* the seven columns site, r2_insample, mae_insample, mape_insample,       *)
(* r2_2024, mae_2024, mape_2024.  A site without a period label starting   *)
(* by "2024-" has its three 2024 metrics missing; its in-sample metrics    *)
(* and the rows of the other sites are computed as usual.  The exported    *)
(* metrics file is that table.                                             *)
(***************************************************************************)
Has2024(s) ==
    \E k \in 1..Len(df) : df[k].site = s /\ StartsWith(df[k].ID_SEM, EvalPrefix)

C4_MetricsRows ==
    /\ \A i, j \in 1..Len(metrics) : metrics[i].site = metrics[j].site => i = j
    /\ \A i \in 1..Len(metrics) :
          /\ DOMAIN metrics[i] = MetricColumns
          /\ metrics[i].site \in SitesOfFrame
          /\ metrics[i].mae_insample # NaN
          /\ metrics[i].mape_insample # MapeNaN
          /\ metrics[i].r2_insample = NaN <=> Cardinality(RowsOf(df, metrics[i].site)) < 2
          /\ IF Has2024(metrics[i].site)
             THEN /\ metrics[i].mae_2024 # NaN
                  /\ metrics[i].mape_2024 # MapeNaN
             ELSE /\ metrics[i].r2_2024 = NaN
                  /\ metrics[i].mae_2024 = NaN
                  /\ metrics[i].mape_2024 = MapeNaN
    /\ Exporting => {metrics[i].site : i \in 1..Len(metrics)} = SitesOfFrame
    /\ OUT_METRICS.written =>
          /\ OUT_METRICS.table = metrics
          /\ Len(OUT_METRICS.table) = Cardinality(SitesOfFrame)

\* a finished run whose metrics file has a site without a 2024 row next to a
\* site with one
C4_Witness ==
    /\ pc = "done"
    /\ OUT_METRICS.written
    /\ \E i, j \in 1..Len(OUT_METRICS.table) :
          /\ ~Has2024(OUT_METRICS.table[i].site)
          /\ OUT_METRICS.table[i].mae_2024 = NaN
          /\ OUT_METRICS.table[i].mae_insample # NaN
          /\ Has2024(OUT_METRICS.table[j].site)
          /\ OUT_METRICS.table[j].mae_2024 # NaN

(***************************************************************************)
(* C7.  The long coefficient table holds one row per (site, retained       *)
(* column of the site's effect design), so no (site, column) pair occurs   *)
(* twice and the wide table has one row per site and one column per        *)
(* distinct column name, a cell missing where the site has no such column. *)
(* A long table with a repeated (site, column) pair makes the reshaping    *)
(* raise, and the wide table and the metrics are written only after a      *)
(* reshaping that did not raise.                                           *)
(***************************************************************************)
Variables(table) == {table[i].variable : i \in 1..Len(table)}

C7_CoefficientTables ==
    /\ Len(results) = Len(metrics)
    /\ \A k \in 1..Len(results) :
          LET design == EffectDesign(SortedGroup(df, metrics[k].site))
          IN  /\ Len(results[k]) = Len(design)
              /\ \A j \in 1..Len(design) :
                    /\ results[k][j].site = metrics[k].site
                    /\ results[k][j].variable = design[j].name
    /\ Exporting =>
          /\ df_coefs = Flatten(results)
          /\ OUT_COEF_L = File(df_coefs)
          /\ ~HasDuplicateKey(df_coefs)
          /\ {df_coefs[i].site : i \in 1..Len(df_coefs)} = SitesOfFrame
    /\ pc = "pivot" =>
          \A i \in 1..Len(df_coefs) :
              Pivot(Append(df_coefs, df_coefs[i])).error = "ValueError"
    /\ OUT_METRICS.written => OUT_COEF_W.written
    /\ OUT_COEF_W.written =>
          LET wide == OUT_COEF_W.table
          IN  /\ Pivot(df_coefs).error = "none"
              /\ wide.error = "none"
              /\ Len(wide.rows) = Cardinality(SitesOfFrame)
              /\ {wide.rows[k].site : k \in 1..Len(wide.rows)} = SitesOfFrame
              /\ Len(wide.columns) = Cardinality(Variables(df_coefs))
              /\ Range(wide.columns) = Variables(df_coefs)
              /\ \A k \in 1..Len(wide.rows) : \A v \in Variables(df_coefs) :
                    LET hits == {i \in 1..Len(df_coefs) :
                                    /\ df_coefs[i].site = wide.rows[k].site
                                    /\ df_coefs[i].variable = v}
                    IN  IF hits = {} THEN wide.rows[k].cells[v] = NaN
                        ELSE \E i \in hits : wide.rows[k].cells[v] = df_coefs[i].coef

\* a finished run whose wide table has two sites with different columns, so
\* that a cell is missing
C7_Witness ==
    /\ pc = "done"
    /\ OUT_COEF_W.written
    /\ Len(OUT_COEF_W.table.rows) = 2
    /\ Len(df_coefs) > Len(OUT_COEF_W.table.columns)
    /\ \E k \in 1..2 : \E v \in Range(OUT_COEF_W.table.columns) :
          /\ OUT_COEF_W.table.rows[k].cells[v] = NaN
          /\ \A i \in 1..Len(df_coefs) :
                df_coefs[i].site = OUT_COEF_W.table.rows[k].site => df_coefs[i].variable # v
====
